---- MODULE Spec2Model ----
(***************************************************************************)
(* Model of the Nexa unified service: the capture / dedup / persist        *)
(* pipeline of services/services.py (capture_and_process_screen and        *)
(* process_image), its extractor dispatch (extract_from_file), and the     *)
(* conversation log and the schema of services/nexy_rep/storage.py.  The   *)
(* pipeline is modelled twice: one action per invocation, and statement by *)
(* statement for the order of its side effects and for concurrent callers. *)
(*                                                                         *)
(* Collaborators that the source imports but that are not part of the      *)
(* modelled files (screenshot, OCR, embedding, similarity, Config) are     *)
(* modelled by their interface: each call either fails or returns a value. *)
(* File primitives (os.remove, os.rename, shutil.copy2) act on the file    *)
(* map and fail only when their precondition fails.                        *)
(***************************************************************************)
EXTENDS Integers, Sequences, FiniteSets, TLC

VARIABLES
    threshold,       \* self.config.similarity_threshold, in units of 1/SimScale
    last_embedding,  \* self._last_embedding
    captured_data,   \* rows of table captured_data, in insertion order
    files,           \* file system: path -> content
    now,             \* the clock read by datetime.now(), in ticks
    ncalls,          \* number of pipeline invocations so far
    call,            \* the last pipeline invocation: its arguments and what its collaborators did
    result,          \* what the last pipeline invocation returned
    extractors,      \* self.extractors
    extraction,      \* the last extract_from_file call and its outcome
    conversations,   \* rows of table conversations, in insertion order
    history,         \* the last get_chat_history call and its rows
    schema,          \* the tables and indexes of the database: name -> definition
    dbcall,          \* the last storage function that wrote to the database
    inv              \* per thread, the pipeline invocation in progress: its
                     \* position in the code and its local variables

pipeVars == <<threshold, last_embedding, captured_data, files, now, ncalls, call, result>>
extractVars == <<extractors, extraction>>
chatVars == <<conversations, history>>
storeVars == <<schema, dbcall>>
vars == <<pipeVars, extractVars, chatVars, storeVars, inv>>

----------------------------------------------------------------------------
(* Bounds *)

MaxCalls == 3        \* pipeline invocations per run
MaxTime == 2         \* last clock tick
SimScale == 2        \* similarity s stands for s / SimScale in [0, 1]
MaxMsgs == 3         \* rows of table conversations
MaxWrites == 2       \* rows appended to the two logs by direct storage calls
MaxPathLen == 3      \* tokens of a file path given to extract_from_file
TicksPerSec == 2     \* clock ticks per second of the "%Y%m%d_%H%M%S" format

----------------------------------------------------------------------------
(* Texts, embeddings, similarity *)

Chars == {" ", "a", "b"}

\* What the screen or an image can show, as the text OCR reads from it.
Texts == {<<>>, <<" ">>, <<"a">>, <<"b">>}

RECURSIVE lstrip(_)
lstrip(s) == IF s # <<>> /\ Head(s) = " " THEN lstrip(Tail(s)) ELSE s

RECURSIVE rstrip(_)
rstrip(s) ==
    IF s # <<>> /\ s[Len(s)] = " " THEN rstrip(SubSeq(s, 1, Len(s) - 1)) ELSE s

\* str.strip()
strip(s) == rstrip(lstrip(s))

IsBlankNoStrip(text) == text = <<>>

\* "not text.strip()"
IsBlank(text) == strip(text) = <<>>

None == <<>>

Count(s, c) == Cardinality({i \in 1..Len(s) : s[i] = c})

\* get_embedding(text): a vector; here the letter counts of the text.
get_embedding(text) == <<Count(text, "a"), Count(text, "b")>>

Abs(x) == IF x < 0 THEN -x ELSE x

Max(x, y) == IF x < y THEN y ELSE x

\* compute_similarity(a, b): SimScale for equal vectors, less the further apart.
compute_similarity(u, v) ==
    Max(0, SimScale - (Abs(u[1] - v[1]) + Abs(u[2] - v[2])))

----------------------------------------------------------------------------
(* Paths and files *)

\* timestamp.strftime("%Y%m%d_%H%M%S")
TimestampStr(ts) == ts \div TicksPerSec

TempPath(ts) == [dir |-> "temp", name |-> TimestampStr(ts)]

PermanentPath(ts) == [dir |-> "images", name |-> TimestampStr(ts)]

NoPath == [dir |-> "none", name |-> 0]

\* Images the caller owns, outside temp_dir and images_dir.
UserImages == <<(<<"a">>), (<<" ">>)>>

UserPath(i) == [dir |-> "user", name |-> i]

MissingPath == [dir |-> "user", name |-> 0]

Junk == <<"?">>

Exists(f, p) == p \in DOMAIN f

WriteFile(f, p, c) == [q \in (DOMAIN f) \cup {p} |-> IF q = p THEN c ELSE f[q]]

KeepFile(f, p) == f

\* os.remove(p) on an existing file
RemoveFile(f, p) == [q \in (DOMAIN f) \ {p} |-> f[q]]

DropFile(f, a, b) == RemoveFile(f, a)

\* os.rename(a, b) on an existing file a
RenameFile(f, a, b) == WriteFile(RemoveFile(f, a), b, f[a])

MoveFile(f, a, b) == WriteFile(RemoveFile(f, a), b, f[a])

\* shutil.copy2(a, b) on an existing file a, a # b
CopyFile(f, a, b) == WriteFile(f, b, f[a])

----------------------------------------------------------------------------
(* The persistent store: captured_data *)

store_data_replacing(rows, timestamp, image_path, extracted_text) ==
    <<[id |-> 1, timestamp |-> timestamp,
       image_path |-> image_path, extracted_text |-> extracted_text]>>

\* store_data(db_path, timestamp, image_path, extracted_text):
\* "INSERT INTO captured_data (timestamp, image_path, extracted_text)
\*  VALUES (?, ?, ?)", the id being assigned by AUTOINCREMENT.
store_data(rows, timestamp, image_path, extracted_text) ==
    Append(rows, [id |-> Len(rows) + 1, timestamp |-> timestamp,
                  image_path |-> image_path, extracted_text |-> extracted_text])

\* "CREATE TABLE IF NOT EXISTS captured_data (id ..., timestamp ...,
\*  image_path ..., extracted_text ...)"
CapturedDataColumns == <<"id", "timestamp", "image_path", "extracted_text">>

\* "CREATE TABLE IF NOT EXISTS conversations (id ..., session_id ...,
\*  timestamp ..., role ..., message ...)"
ConversationsColumns == <<"id", "session_id", "timestamp", "role", "message">>

\* "CREATE INDEX IF NOT EXISTS idx_conversations_session ON conversations(session_id)"
SessionIndex == <<"conversations", "session_id">>

NoSchema == [n \in {} |-> <<>>]

HasTable(sch, name) == name \in DOMAIN sch

CreateAfresh(sch, rows, name, definition) ==
    <<[n \in (DOMAIN sch) \cup {name} |-> IF n = name THEN definition ELSE sch[n]],
      <<>>>>

\* CREATE TABLE / INDEX IF NOT EXISTS name: <<the schema, the rows of the table>>
CreateIfNotExists(sch, rows, name, definition) ==
    IF name \in DOMAIN sch
    THEN <<sch, rows>>
    ELSE <<[n \in (DOMAIN sch) \cup {name} |-> IF n = name THEN definition ELSE sch[n]],
           <<>>>>

\* The database after init_db and ensure_conversation_table.
FullSchema ==
    [n \in {"captured_data", "conversations", "idx_conversations_session"} |->
        CASE n = "captured_data" -> CapturedDataColumns
          [] n = "conversations" -> ConversationsColumns
          [] OTHER -> SessionIndex]

----------------------------------------------------------------------------
(* Extractor dispatch *)

\* A file path is a sequence of tokens: the separator, the dot, and runs of
\* other characters.
Tokens == {"/", ".", "f", "pdf", "PDF", "docx", "csv", "txt", "json", "yaml",
           "yml", "Yml", "toml", "md", "exe"}

Paths == UNION {[1..n -> Tokens] : n \in 1..MaxPathLen}

\* str.lower(), token by token
LowerToken(t) == CASE t = "PDF" -> "pdf" [] t = "Yml" -> "yml" [] OTHER -> t

lower(s) == [i \in 1..Len(s) |-> LowerToken(s[i])]

\* str.rfind(c), 1-based, 0 when c does not occur
RECURSIVE rfindFrom(_, _, _)
rfindFrom(s, c, i) ==
    IF i = 0 THEN 0 ELSE IF s[i] = c THEN i ELSE rfindFrom(s, c, i - 1)

rfind(s, c) == rfindFrom(s, c, Len(s))

\* The loop of os.path.splitext that skips the leading dots of the last
\* component: whether a character other than the dot precedes dotIndex.
RECURSIVE NameBeforeDot(_, _, _)
NameBeforeDot(s, filenameIndex, dotIndex) ==
    IF filenameIndex >= dotIndex THEN FALSE
    ELSE IF s[filenameIndex] # "." THEN TRUE
    ELSE NameBeforeDot(s, filenameIndex + 1, dotIndex)

\* os.path.splitext(p): <<root, ext>>
splitext(s) ==
    LET sepIndex == rfind(s, "/")
        dotIndex == rfind(s, ".")
    IN  IF dotIndex > sepIndex /\ NameBeforeDot(s, sepIndex + 1, dotIndex)
        THEN <<SubSeq(s, 1, dotIndex - 1), SubSeq(s, dotIndex, Len(s))>>
        ELSE <<s, <<>>>>

FileExtAsWritten(file_path) == splitext(file_path)[2]

\* "file_ext = os.path.splitext(file_path)[1].lower()"
FileExt(file_path) == lower(splitext(file_path)[2])

\* The mapping built by UnifiedService.__init__
ExtractorMap ==
    (<<".", "pdf">> :> "PDFExtractor") @@ (<<".", "docx">> :> "DocxExtractor")
    @@ (<<".", "csv">> :> "CSVExtractor") @@ (<<".", "txt">> :> "TXTExtractor")
    @@ (<<".", "json">> :> "JSONExtractor") @@ (<<".", "yaml">> :> "YAMLExtractor")
    @@ (<<".", "yml">> :> "YAMLExtractor") @@ (<<".", "toml">> :> "TOMLExtractor")
    @@ (<<".", "md">> :> "MarkdownExtractor")

NoExtraction ==
    [file_path |-> <<>>, extractor |-> "none", error |-> "", file_ext |-> <<>>,
     pending |-> FALSE]

----------------------------------------------------------------------------
(* The persistent store: conversations *)

Sessions == {"s1", "s2"}

Roles == {"user", "assistant"}

Messages == {"hi"}

\* The datetimes a caller passes to store_chat_message, in ticks: two within
\* one second (the first on the second, the next with a fraction) and a later one.
ChatTimes == {0, 1, TicksPerSec}

\* The text sqlite3 stores for a datetime: isoformat(" "), which leaves the
\* fraction of the second out when it is zero.  <<second>> or <<second, fraction>>.
AdaptDatetime(ts) ==
    IF ts % TicksPerSec = 0 THEN <<ts \div TicksPerSec>>
    ELSE <<ts \div TicksPerSec, ts % TicksPerSec>>

\* The datetime a stored text stands for.
ParseDatetime(text) ==
    IF Len(text) = 1 THEN text[1] * TicksPerSec ELSE text[1] * TicksPerSec + text[2]

\* Comparison of two stored texts, as SQLite compares TEXT values: position by
\* position, a proper prefix first.
RECURSIVE TextLeq(_, _)
TextLeq(a, b) ==
    IF a = <<>> THEN TRUE
    ELSE IF b = <<>> THEN FALSE
    ELSE IF Head(a) # Head(b) THEN Head(a) < Head(b)
    ELSE TextLeq(Tail(a), Tail(b))

\* The enumerations of a finite set, as sequences.
RECURSIVE Perms(_)
Perms(S) ==
    IF S = {} THEN {<<>>}
    ELSE UNION {{<<x>> \o f : f \in Perms(S \ {x})} : x \in S}

\* The orders in which a query without ORDER BY would here return rows: by id.
RowOrdersById(rows, ids) ==
    {f \in Perms(ids) : \A i, j \in 1..Cardinality(ids) : i < j => f[i] < f[j]}

\* The orders in which "ORDER BY timestamp ASC" may return the rows with the
\* given ids: each sorted by the stored text; rows with equal keys in any order.
RowOrders(rows, ids) ==
    {f \in Perms(ids) :
        \A i, j \in 1..Cardinality(ids) :
            i < j => TextLeq(rows[f[i]].timestamp, rows[f[j]].timestamp)}

AllIds(rows, session_id) == 1..Len(rows)

\* "FROM conversations WHERE session_id = ?": the ids of the selected rows
SessionIds(rows, session_id) ==
    {i \in 1..Len(rows) : rows[i].session_id = session_id}

\* "if limit: q = q + ' LIMIT %d' % int(limit)"
ApplyLimit(seq, given, limit) ==
    IF given /\ limit # 0 THEN SubSeq(seq, 1, IF limit < Len(seq) THEN limit ELSE Len(seq))
    ELSE seq

NoHistory == [called |-> FALSE, session_id |-> "", given |-> FALSE, limit |-> 0,
              rows |-> <<>>]

----------------------------------------------------------------------------
(* The deduplicating pipeline *)

AcceptBySimilarityOnly(store, last, similarity, thr) ==
    store /\ similarity < thr

AcceptNotStrict(store, last, similarity, thr) ==
    store /\ (last = None \/ similarity <= thr)

\* "if store and (self._last_embedding is None or
\*      result['similarity'] < self.config.similarity_threshold)"
Accept(store, last, similarity, thr) ==
    store /\ (last = None \/ similarity < thr)

\* The embedding step: <<embedding, similarity>>.  When get_embedding or
\* compute_similarity raises, the except clause leaves embedding = None and
\* the similarity at its initial 0.0.
EmbedStep(text, last, embed) ==
    IF embed = "ok"
    THEN <<get_embedding(text),
           IF last # None THEN compute_similarity(get_embedding(text), last) ELSE 0>>
    ELSE <<None, 0>>

Result(ts, path, text, sim, err) ==
    [timestamp |-> ts, image_path |-> path, text |-> text,
     similarity |-> sim, error |-> err]

ErrorResultUntagged(ts, tag) == Result(ts, NoPath, <<>>, 0, "")

\* The dictionary returned when take_screenshot or extract_text_from_image raises.
ErrorResult(ts, tag) == Result(ts, NoPath, <<>>, 0, tag)

ClearLastEmbedding(embedding, last) == None

KeepLastEmbedding(embedding, last) == last

\* "self._last_embedding = embedding" of an accepted capture
UpdateLastEmbedding(embedding, last) == embedding

\* The threads that call the service, and a thread outside any invocation.
Threads == {"t1", "t2"}

Idle == [pc |-> "idle", op |-> "none", store |-> FALSE, src |-> NoPath,
         timestamp |-> 0, text |-> <<>>, embedding |-> None, seen |-> None,
         similarity |-> 0]

NoCall == [op |-> "none", store |-> FALSE, src |-> NoPath, capture |-> "none",
           ocr |-> "none", embed |-> "none", db |-> "none", raised |-> FALSE]

Init ==
    /\ threshold \in 0..SimScale
    /\ last_embedding = None
    /\ captured_data = <<>>
    /\ files = [p \in {UserPath(i) : i \in 1..Len(UserImages)} |-> UserImages[p.name]]
    /\ now = 0
    /\ ncalls = 0
    /\ call = NoCall
    /\ result = Result(0, NoPath, <<>>, 0, "")
    /\ extractors = ExtractorMap
    /\ extraction = NoExtraction
    /\ conversations = <<>>
    /\ history = NoHistory
    /\ schema = FullSchema
    /\ dbcall = "none"
    /\ inv = [t \in Threads |-> Idle]

\* A pipeline invocation's arguments and what its collaborators did; a step it
\* did not reach stays "none".
Call(op, store, src, capture, ocr, embed, db, raised) ==
    [op |-> op, store |-> store, src |-> src, capture |-> capture, ocr |-> ocr,
     embed |-> embed, db |-> db, raised |-> raised]

\* The clock advances between invocations.
Tick ==
    /\ now < MaxTime
    /\ now' = now + 1
    /\ UNCHANGED <<threshold, last_embedding, captured_data, files, ncalls, call,
                   result, extractVars, chatVars, storeVars, inv>>

\* The OCR failure path of capture_and_process_screen:
\* "try: os.remove(temp_image_path) except Exception: pass"
CleanupLeaky(f, temp_image_path) == f

CleanupAfterOcrFailure(f, temp_image_path) ==
    IF Exists(f, temp_image_path) THEN RemoveFile(f, temp_image_path) ELSE f

\* UnifiedService.capture_and_process_screen(store)
CaptureAndProcessScreen ==
    /\ ncalls < MaxCalls
    /\ ncalls' = ncalls + 1
    /\ \E store \in BOOLEAN, capture \in {"ok", "unavailable", "partial"} :
       \E shown \in IF capture = "ok" THEN Texts ELSE {<<>>},
          ocr \in IF capture = "ok" THEN {"ok", "fail"} ELSE {"fail"} :
       \E embed \in IF ocr = "ok" /\ ~IsBlank(shown) THEN {"ok", "fail"} ELSE {"fail"},
          db \in IF ocr = "ok" /\ ~IsBlank(shown) THEN {"ok", "fail"} ELSE {"fail"} :
        LET timestamp == now
            temp_image_path == TempPath(timestamp)
            permanent_image_path == PermanentPath(timestamp)
            written == WriteFile(files, temp_image_path, shown)
            text == written[temp_image_path]
            es == EmbedStep(text, last_embedding, embed)
            embedding == es[1]
            similarity == es[2]
        IN
        IF capture # "ok" THEN
            \* take_screenshot raised, before or after writing to the path
            /\ files' = IF capture = "partial"
                        THEN WriteFile(files, temp_image_path, Junk) ELSE files
            /\ result' = ErrorResult(timestamp, "capture_unavailable")
            /\ call' = Call("capture", store, temp_image_path, capture,
                            "none", "none", "none", FALSE)
            /\ UNCHANGED <<last_embedding, captured_data>>
        ELSE IF ocr = "fail" THEN
            /\ files' = CleanupAfterOcrFailure(written, temp_image_path)
            /\ result' = ErrorResult(timestamp, "ocr_unavailable")
            /\ call' = Call("capture", store, temp_image_path, capture,
                            ocr, "none", "none", FALSE)
            /\ UNCHANGED <<last_embedding, captured_data>>
        ELSE IF IsBlank(text) THEN
            /\ files' = RemoveFile(written, temp_image_path)
            /\ result' = Result(timestamp, NoPath, text, 0, "")
            /\ call' = Call("capture", store, temp_image_path, capture,
                            ocr, "none", "none", FALSE)
            /\ UNCHANGED <<last_embedding, captured_data>>
        ELSE IF Accept(store, last_embedding, similarity, threshold) THEN
            /\ files' = RenameFile(written, temp_image_path, permanent_image_path)
            /\ captured_data' =
                   IF db = "ok"
                   THEN store_data(captured_data, timestamp, permanent_image_path, text)
                   ELSE captured_data
            /\ result' = Result(timestamp, permanent_image_path, text, similarity, "")
            /\ last_embedding' = UpdateLastEmbedding(embedding, last_embedding)
            /\ call' = Call("capture", store, temp_image_path, capture,
                            ocr, embed, db, FALSE)
        ELSE
            /\ files' = RemoveFile(written, temp_image_path)
            /\ result' = Result(timestamp, NoPath, text, similarity, "")
            /\ call' = Call("capture", store, temp_image_path, capture,
                            ocr, embed, "none", FALSE)
            /\ UNCHANGED <<last_embedding, captured_data>>
    /\ UNCHANGED <<threshold, now, extractVars, chatVars, storeVars, inv>>

\* The image paths a caller can pass to process_image: its own images, a path
\* with no file, or an image the service stored earlier.
SourcePaths ==
    {UserPath(i) : i \in 1..Len(UserImages)} \cup {MissingPath}
        \cup {p \in DOMAIN files : p.dir = "images"}

\* UnifiedService.process_image(image_path, store)
ProcessImage ==
    /\ ncalls < MaxCalls
    /\ ncalls' = ncalls + 1
    /\ \E store \in BOOLEAN, image_path \in SourcePaths, ocr \in {"ok", "fail"} :
       \E embed \in IF ocr = "ok" THEN {"ok", "fail"} ELSE {"fail"},
          db \in IF ocr = "ok" THEN {"ok", "fail"} ELSE {"fail"} :
        LET timestamp == now
            permanent_image_path == PermanentPath(timestamp)
            text == files[image_path]
            es == EmbedStep(text, last_embedding, embed)
            embedding == es[1]
            similarity == es[2]
        IN
        IF ocr = "fail" \/ ~Exists(files, image_path) THEN
            \* extract_text_from_image raised (no OCR, or no such image)
            /\ result' = ErrorResult(timestamp, "ocr_unavailable")
            /\ call' = Call("process", store, image_path, "none",
                            "fail", "none", "none", FALSE)
            /\ UNCHANGED <<last_embedding, captured_data, files>>
        ELSE IF IsBlank(text) THEN
            /\ result' = Result(timestamp, NoPath, text, 0, "")
            /\ call' = Call("process", store, image_path, "none",
                            ocr, "none", "none", FALSE)
            /\ UNCHANGED <<last_embedding, captured_data, files>>
        ELSE IF Accept(store, last_embedding, similarity, threshold) THEN
            IF image_path = permanent_image_path THEN
                \* shutil.copy2 raises SameFileError, which process_image lets through
                /\ call' = Call("process", store, image_path, "none",
                                ocr, embed, "none", TRUE)
                /\ UNCHANGED <<last_embedding, captured_data, files, result>>
            ELSE
                /\ files' = CopyFile(files, image_path, permanent_image_path)
                /\ captured_data' =
                       IF db = "ok"
                       THEN store_data(captured_data, timestamp,
                                       permanent_image_path, text)
                       ELSE captured_data
                /\ result' = Result(timestamp, permanent_image_path, text,
                                    similarity, "")
                /\ last_embedding' = UpdateLastEmbedding(embedding, last_embedding)
                /\ call' = Call("process", store, image_path, "none",
                                ocr, embed, db, FALSE)
        ELSE
            /\ result' = Result(timestamp, NoPath, text, similarity, "")
            /\ call' = Call("process", store, image_path, "none",
                            ocr, embed, "none", FALSE)
            /\ UNCHANGED <<last_embedding, captured_data, files>>
    /\ UNCHANGED <<threshold, now, extractVars, chatVars, storeVars, inv>>

----------------------------------------------------------------------------
(* extract_from_file *)

\* UnifiedService.extract_from_file(file_path), up to the call of the
\* extractor it selected.
Extract(file_path) ==
    /\ LET file_ext == FileExt(file_path) IN
        IF file_ext \notin DOMAIN extractors
        THEN extraction' = [file_path |-> file_path, extractor |-> "none",
                            error |-> "ValueError", file_ext |-> file_ext,
                            pending |-> FALSE]
        ELSE extraction' = [file_path |-> file_path,
                            extractor |-> extractors[file_ext],
                            error |-> "", file_ext |-> file_ext,
                            pending |-> FALSE]
    /\ UNCHANGED <<pipeVars, extractors, chatVars, storeVars, inv>>

ExtractFromFile == \E file_path \in Paths : Extract(file_path)

\* extract_from_file applied to one given path, on a service whose pipeline
\* may have run before: the argument and last_embedding are drawn at the start.
InitExtract ==
    /\ threshold = SimScale
    /\ last_embedding \in {None, get_embedding(<<"a">>)}
    /\ captured_data = <<>>
    /\ files = [p \in {UserPath(i) : i \in 1..Len(UserImages)} |-> UserImages[p.name]]
    /\ now = 0
    /\ ncalls = 0
    /\ call = NoCall
    /\ result = Result(0, NoPath, <<>>, 0, "")
    /\ extractors = ExtractorMap
    /\ \E file_path \in Paths :
         extraction = [NoExtraction EXCEPT !.file_path = file_path, !.pending = TRUE]
    /\ conversations = <<>>
    /\ history = NoHistory
    /\ schema = FullSchema
    /\ dbcall = "none"
    /\ inv = [t \in Threads |-> Idle]

ExtractGiven == extraction.pending /\ Extract(extraction.file_path)

SpecExtract == InitExtract /\ [][ExtractGiven]_vars

----------------------------------------------------------------------------
(* store_chat_message and get_chat_history *)

\* store_chat_message(db_path, session_id, role, message, timestamp)
StoreChatMessage ==
    /\ Len(conversations) < MaxMsgs
    /\ HasTable(schema, "conversations")   \* else the INSERT raises
    /\ \E session_id \in Sessions, role \in Roles, message \in Messages,
          given \in BOOLEAN :
       \E ts \in IF given THEN ChatTimes ELSE {now} :
        LET timestamp == ts IN
        conversations' =
            Append(conversations,
                   [id |-> Len(conversations) + 1, session_id |-> session_id,
                    timestamp |-> AdaptDatetime(timestamp), role |-> role,
                    message |-> message])
    /\ history' = NoHistory
    /\ dbcall' = "store_chat_message"
    /\ UNCHANGED <<pipeVars, extractVars, schema, inv>>

\* get_chat_history(db_path, session_id, limit)
GetChatHistory ==
    /\ HasTable(schema, "conversations")   \* else the SELECT raises
    /\ \E session_id \in Sessions, given \in BOOLEAN :
       \E limit \in IF given THEN 0..MaxMsgs ELSE {0} :
        LET ids == SessionIds(conversations, session_id)
        IN  \E f \in RowOrders(conversations, ids) :
                LET selected == [i \in 1..Cardinality(ids) |->
                                    [timestamp |-> conversations[f[i]].timestamp,
                                     role |-> conversations[f[i]].role,
                                     message |-> conversations[f[i]].message]]
                IN  history' = [called |-> TRUE, session_id |-> session_id,
                                given |-> given, limit |-> limit,
                                rows |-> ApplyLimit(selected, given, limit)]
    /\ UNCHANGED <<pipeVars, extractVars, conversations, storeVars, inv>>

NextChat == StoreChatMessage \/ GetChatHistory

\* The conversation log does not read the threshold: one value of it is enough.
InitChat == Init /\ threshold = SimScale

SpecChat == InitChat /\ [][NextChat]_vars

----------------------------------------------------------------------------
(* The pipeline statement by statement.  A thread runs one invocation at a  *)
(* time; each action is one collaborator call or one run of statements       *)
(* between two such calls.  An exception that the code does not catch ends   *)
(* the invocation without a result.                                          *)

\* The statements of thread t leave the other threads where they are.
Goto(t, frame) == inv' = [inv EXCEPT ![t] = frame]

Return(t) == Goto(t, Idle)

\* capture_and_process_screen(store) up to the return of take_screenshot
StartCapture(t) ==
    /\ inv[t].pc = "idle"
    /\ ncalls < MaxCalls
    /\ ncalls' = ncalls + 1
    /\ \E store \in BOOLEAN, capture \in {"ok", "unavailable", "partial"} :
       \E shown \in IF capture = "ok" THEN Texts ELSE {<<>>} :
        LET timestamp == now
            temp_image_path == TempPath(timestamp)
        IN
        IF capture = "ok" THEN
            /\ files' = WriteFile(files, temp_image_path, shown)
            /\ Goto(t, [Idle EXCEPT !.pc = "recognize", !.op = "capture",
                                    !.store = store, !.src = temp_image_path,
                                    !.timestamp = timestamp])
            /\ UNCHANGED result
        ELSE
            /\ files' = IF capture = "partial"
                        THEN WriteFile(files, temp_image_path, Junk) ELSE files
            /\ result' = ErrorResult(timestamp, "capture_unavailable")
            /\ Return(t)
    /\ UNCHANGED <<threshold, last_embedding, captured_data, now, call,
                   extractVars, chatVars, storeVars>>

\* process_image(image_path, store) up to the call of extract_text_from_image
StartProcess(t) ==
    /\ inv[t].pc = "idle"
    /\ ncalls < MaxCalls
    /\ ncalls' = ncalls + 1
    /\ \E store \in BOOLEAN, image_path \in SourcePaths :
         Goto(t, [Idle EXCEPT !.pc = "recognize", !.op = "process",
                              !.store = store, !.src = image_path,
                              !.timestamp = now])
    /\ UNCHANGED <<threshold, last_embedding, captured_data, files, now, call,
                   result, extractVars, chatVars, storeVars>>

\* extract_text_from_image returns or raises; the empty-text test
Recognize(t) ==
    /\ inv[t].pc = "recognize"
    /\ \E ocr \in {"ok", "fail"} :
        LET i == inv[t] IN
        IF ocr = "fail" \/ ~Exists(files, i.src) THEN
            /\ files' = IF i.op = "capture"
                        THEN CleanupAfterOcrFailure(files, i.src) ELSE files
            /\ result' = ErrorResult(i.timestamp, "ocr_unavailable")
            /\ Return(t)
        ELSE IF IsBlank(files[i.src]) THEN
            /\ files' = IF i.op = "capture" THEN RemoveFile(files, i.src) ELSE files
            /\ result' = Result(i.timestamp, NoPath, files[i.src], 0, "")
            /\ Return(t)
        ELSE
            /\ Goto(t, [i EXCEPT !.pc = "embed", !.text = files[i.src]])
            /\ UNCHANGED <<files, result>>
    /\ UNCHANGED <<threshold, last_embedding, captured_data, now, ncalls, call,
                   extractVars, chatVars, storeVars>>

\* get_embedding returns or raises; "if self._last_embedding is not None"
\* reads last_embedding for the call of compute_similarity
Embed(t) ==
    /\ inv[t].pc = "embed"
    /\ \E embed \in {"ok", "fail"} :
        LET i == inv[t] IN
        IF embed = "fail" THEN Goto(t, [i EXCEPT !.pc = "decide"])
        ELSE IF last_embedding # None
        THEN Goto(t, [i EXCEPT !.pc = "compare",
                               !.embedding = get_embedding(i.text),
                               !.seen = last_embedding])
        ELSE Goto(t, [i EXCEPT !.pc = "decide",
                               !.embedding = get_embedding(i.text)])
    /\ UNCHANGED <<pipeVars, extractVars, chatVars, storeVars>>

\* compute_similarity returns or raises
Compare(t) ==
    /\ inv[t].pc = "compare"
    /\ \E compare \in {"ok", "fail"} :
        LET i == inv[t] IN
        IF compare = "ok"
        THEN Goto(t, [i EXCEPT !.pc = "decide",
                               !.similarity = compute_similarity(i.embedding, i.seen)])
        ELSE Goto(t, [i EXCEPT !.pc = "decide", !.embedding = None])
    /\ UNCHANGED <<pipeVars, extractVars, chatVars, storeVars>>

\* The acceptance test, then os.rename / shutil.copy2 on acceptance and
\* os.remove and the return on rejection.  The file call raises when its
\* source is missing (or, for copy2, is the destination), and may fail
\* otherwise.
Decide(t) ==
    /\ inv[t].pc = "decide"
    /\ \E relocation \in {"ok", "fail"} :
        LET i == inv[t]
            permanent_image_path == PermanentPath(i.timestamp)
        IN
        IF Accept(i.store, last_embedding, i.similarity, threshold) THEN
            IF relocation = "fail" \/ ~Exists(files, i.src)
                 \/ (i.op = "process" /\ i.src = permanent_image_path)
            THEN /\ Return(t)
                 /\ UNCHANGED <<files, result>>
            ELSE /\ files' = IF i.op = "capture"
                             THEN RenameFile(files, i.src, permanent_image_path)
                             ELSE CopyFile(files, i.src, permanent_image_path)
                 /\ Goto(t, [i EXCEPT !.pc = "store"])
                 /\ UNCHANGED result
        ELSE
            /\ relocation = "ok"
            /\ IF i.op = "capture" /\ ~Exists(files, i.src)
               THEN UNCHANGED <<files, result>>
               ELSE /\ files' = IF i.op = "capture"
                                 THEN RemoveFile(files, i.src) ELSE files
                    /\ result' = Result(i.timestamp, NoPath, i.text, i.similarity, "")
            /\ Return(t)
    /\ UNCHANGED <<threshold, last_embedding, captured_data, now, ncalls, call,
                   extractVars, chatVars, storeVars>>

\* store_data returns or raises (logged and ignored)
Store(t) ==
    /\ inv[t].pc = "store"
    /\ \E db \in {"ok", "fail"} :
        LET i == inv[t] IN
        captured_data' =
            IF db = "ok"
            THEN store_data(captured_data, i.timestamp, PermanentPath(i.timestamp),
                            i.text)
            ELSE captured_data
    /\ Goto(t, [inv[t] EXCEPT !.pc = "update"])
    /\ UNCHANGED <<threshold, last_embedding, files, now, ncalls, call, result,
                   extractVars, chatVars, storeVars>>

\* "result['image_path'] = permanent_image_path;
\*  self._last_embedding = embedding; return result"
Update(t) ==
    /\ inv[t].pc = "update"
    /\ LET i == inv[t] IN
        /\ result' = Result(i.timestamp, PermanentPath(i.timestamp), i.text,
                            i.similarity, "")
        /\ last_embedding' = UpdateLastEmbedding(i.embedding, last_embedding)
    /\ Return(t)
    /\ UNCHANGED <<threshold, captured_data, files, now, ncalls, call,
                   extractVars, chatVars, storeVars>>

Step(t) ==
    \/ StartCapture(t)
    \/ StartProcess(t)
    \/ Recognize(t)
    \/ Embed(t)
    \/ Compare(t)
    \/ Decide(t)
    \/ Store(t)
    \/ Update(t)

\* The process stops wherever it is and is started again: the files and the
\* database stay, a new UnifiedService has no last_embedding.
Restart ==
    /\ \E t \in Threads : inv[t].pc # "idle"
    /\ inv' = [t \in Threads |-> Idle]
    /\ last_embedding' = None
    /\ UNCHANGED <<threshold, captured_data, files, now, ncalls, call, result,
                   extractVars, chatVars, storeVars>>

\* One caller, whose process may stop at any statement.
NextSteps == Tick \/ Step("t1") \/ Restart

InitSteps == Init /\ threshold = 1

SpecSteps == InitSteps /\ [][NextSteps]_vars

\* Two callers on one service instance, with no lock in the service: the
\* statements of their invocations interleave.
NextConcurrent == Tick \/ \E t \in Threads : Step(t)

SpecConcurrent == InitSteps /\ [][NextConcurrent]_vars

----------------------------------------------------------------------------
(* The storage functions called directly, on a database that starts empty *)

\* init_db(db_path)
InitDb ==
    /\ LET created == CreateIfNotExists(schema, captured_data, "captured_data",
                                        CapturedDataColumns)
       IN  schema' = created[1] /\ captured_data' = created[2]
    /\ dbcall' = "init_db"
    /\ UNCHANGED <<threshold, last_embedding, files, now, ncalls, call, result,
                   extractVars, chatVars, inv>>

\* ensure_conversation_table(db_path)
EnsureConversationTable ==
    /\ LET created == CreateIfNotExists(schema, conversations, "conversations",
                                        ConversationsColumns)
           indexed == CreateIfNotExists(created[1], created[2],
                                        "idx_conversations_session", SessionIndex)
       IN  schema' = indexed[1] /\ conversations' = created[2]
    /\ dbcall' = "ensure_conversation_table"
    /\ UNCHANGED <<pipeVars, extractVars, history, inv>>

\* store_data(db_path, timestamp, image_path, extracted_text)
StoreData ==
    /\ HasTable(schema, "captured_data")   \* else the INSERT raises
    /\ \E extracted_text \in {t \in Texts : ~IsBlank(t)} :
         captured_data' = store_data(captured_data, now, PermanentPath(now),
                                     extracted_text)
    /\ dbcall' = "store_data"
    /\ UNCHANGED <<threshold, last_embedding, files, now, ncalls, call, result,
                   extractVars, chatVars, schema, inv>>

\* A caller that makes at most MaxWrites appends in all.
Writes == Len(captured_data) + Len(conversations)

NextStore ==
    \/ InitDb
    \/ EnsureConversationTable
    \/ Writes < MaxWrites /\ StoreData
    \/ Writes < MaxWrites /\ StoreChatMessage

\* A new database file: no table yet.
InitStore ==
    /\ threshold = SimScale
    /\ last_embedding = None
    /\ captured_data = <<>>
    /\ files = [p \in {UserPath(i) : i \in 1..Len(UserImages)} |-> UserImages[p.name]]
    /\ now = 0
    /\ ncalls = 0
    /\ call = NoCall
    /\ result = Result(0, NoPath, <<>>, 0, "")
    /\ extractors = ExtractorMap
    /\ extraction = NoExtraction
    /\ conversations = <<>>
    /\ history = NoHistory
    /\ schema = NoSchema
    /\ dbcall = "none"
    /\ inv = [t \in Threads |-> Idle]

SpecStore == InitStore /\ [][NextStore]_vars

NextPipeline == Tick \/ CaptureAndProcessScreen \/ ProcessImage

SpecPipeline == Init /\ [][NextPipeline]_vars

Next == NextPipeline \/ ExtractFromFile \/ NextChat \/ NextStore

Spec == Init /\ [][Next]_vars

----------------------------------------------------------------------------
(* Properties of the pipeline *)

\* The step is a pipeline invocation.
Invoked == ncalls' = ncalls + 1

\* The step is a pipeline invocation that returned a result.
Returned == Invoked /\ ~call'.raised

\* The invocation recognized a text that is not empty or whitespace-only.
OnlySpaces(t) == \A i \in 1..Len(t) : t[i] = " "

RecognizedText == Returned /\ call'.ocr = "ok" /\ ~OnlySpaces(result'.text)

\* The files of images_dir.
Images(f) == [p \in {q \in DOMAIN f : q.dir = "images"} |-> f[p]]

\* The acceptance rule, on the state before the invocation and its outcome.
RuleHolds ==
    call'.store /\ (last_embedding = None \/ result'.similarity < threshold)

\* The image of the invocation is at its permanent path (and, for a capture,
\* no longer at its temporary path).
Relocated ==
    /\ result'.image_path = PermanentPath(result'.timestamp)
    /\ Exists(files', result'.image_path)
    /\ files'[result'.image_path] = result'.text
    /\ call'.op = "capture" => ~Exists(files', call'.src)

RecordAppended ==
    /\ Len(captured_data') = Len(captured_data) + 1
    /\ SubSeq(captured_data', 1, Len(captured_data)) = captured_data

C2_ImagePathIffPersisted ==
    [][Returned => ((result'.image_path # NoPath) <=> RecordAppended)]_vars

\* C3: when the recognized text is empty or whitespace-only, the result has
\* no image_path and similarity 0, no record is appended, no permanent image
\* is created and last_embedding is unchanged, whatever store, the threshold
\* and last_embedding are.
C3_EmptyTextLaw ==
    [][(Returned /\ call'.ocr = "ok" /\ OnlySpaces(result'.text))
        => /\ result'.image_path = NoPath /\ result'.similarity = 0
           /\ captured_data' = captured_data
           /\ Images(files') = Images(files)
           /\ last_embedding' = last_embedding]_vars

\* C3 witness: a whitespace-only text was recognized with store true while
\* last_embedding was present.
C3_Witness ==
    /\ call.op \in {"capture", "process"} /\ call.ocr = "ok" /\ call.store
    /\ result.text = <<" ">> /\ result.image_path = NoPath
    /\ last_embedding # None

SameTextTwice ==
    /\ Returned /\ call.op \in {"capture", "process"} /\ ~call.raised
    /\ call.ocr = "ok" /\ call'.ocr = "ok"
    /\ ~OnlySpaces(result.text) /\ result'.text = result.text
    /\ call.store /\ call'.store

\* C5 as stated: of two consecutive invocations on the same text with
\* store = true the first has image_path set, the second has it absent with a
\* similarity at or above the threshold, and one record is appended for the pair.
C5_DuplicateLaw ==
    [][SameTextTwice
        => /\ result.image_path # NoPath
           /\ result'.image_path = NoPath
           /\ result'.similarity >= threshold
           /\ call.db = "ok" /\ captured_data' = captured_data]_vars

\* C5 amended: when the same non-empty text is processed twice in a row with
\* store = true, the first invocation is accepted and both obtain their
\* embedding, the second has image_path absent and the similarity of a
\* self-match, at or above the threshold, and appends no record, so that the
\* pair appends at most one; last_embedding stays that of the first.
C5_DuplicateRejected ==
    [][(SameTextTwice /\ result.image_path # NoPath
          /\ call.embed = "ok" /\ call'.embed = "ok")
        => /\ result'.image_path = NoPath
           /\ result'.similarity = SimScale /\ result'.similarity >= threshold
           /\ captured_data' = captured_data
           /\ Images(files') = Images(files)
           /\ last_embedding' = last_embedding]_vars

\* C5 witness: the second of two invocations on the same text was rejected
\* as a self-match, after the first one's record was appended.
C5_Witness ==
    /\ ncalls = 2 /\ call.store /\ call.embed = "ok" /\ ~call.raised
    /\ result.image_path = NoPath /\ result.similarity = SimScale
    /\ Len(captured_data) = 1
    /\ captured_data[1].extracted_text = result.text
    /\ last_embedding = get_embedding(result.text)

\* C6: a failure of the capture source or of recognition does not propagate:
\* the result has an error tag, empty text, similarity 0 and no image_path,
\* and the capture log, the permanent images and last_embedding are unchanged.
C6_FailuresAbsorbed ==
    [][(Invoked /\ (call'.capture \in {"unavailable", "partial"} \/ call'.ocr = "fail"))
        => /\ ~call'.raised
           /\ result'.error \in {"capture_unavailable", "ocr_unavailable"}
           /\ (result'.error = "capture_unavailable") <=> (call'.capture # "ok"
                                                             /\ call'.op = "capture")
           /\ result'.text = <<>> /\ result'.similarity = 0
           /\ result'.image_path = NoPath
           /\ captured_data' = captured_data
           /\ Images(files') = Images(files)
           /\ last_embedding' = last_embedding]_vars

\* C6 witness: the capture source failed while a capture was already stored.
C6_Witness ==
    /\ call.op = "capture" /\ call.capture = "unavailable"
    /\ result.error = "capture_unavailable"
    /\ captured_data # <<>> /\ last_embedding # None

\* C7: when the embedding step fails for a non-empty text, the result the
\* invocation returns has similarity 0 and last_embedding is left as it was,
\* whether or not the capture is stored.
C7_EmbeddingFailureKeepsState ==
    [][(Returned /\ call'.embed = "fail")
        => /\ result'.similarity = 0
           /\ last_embedding' = last_embedding]_vars

----------------------------------------------------------------------------
(* Properties of the extractor dispatch *)

MaxOf(S) == CHOOSE x \in S : \A y \in S : y <= x

\* The last component of a path: what follows its last separator.
LastComponent(path) ==
    LET seps == {i \in 1..Len(path) : path[i] = "/"}
    IN  SubSeq(path, IF seps = {} THEN 1 ELSE MaxOf(seps) + 1, Len(path))

\* The extension of a path: the part of its last component from the last dot
\* on, when something other than dots precedes that dot; empty otherwise.
ExtensionOf(path) ==
    LET c == LastComponent(path)
        dots == {i \in 1..Len(c) : c[i] = "." /\ \E j \in 1..(i - 1) : c[j] # "."}
    IN  IF dots = {} THEN <<>> ELSE SubSeq(c, MaxOf(dots), Len(c))

\* The extractor documented for a lower-cased extension, "none" when unsupported.
ExpectedExtractor(e) ==
    CASE e = <<".", "pdf">> -> "PDFExtractor"
      [] e = <<".", "docx">> -> "DocxExtractor"
      [] e = <<".", "csv">> -> "CSVExtractor"
      [] e = <<".", "txt">> -> "TXTExtractor"
      [] e = <<".", "json">> -> "JSONExtractor"
      [] e = <<".", "yaml">> -> "YAMLExtractor"
      [] e = <<".", "yml">> -> "YAMLExtractor"
      [] e = <<".", "toml">> -> "TOMLExtractor"
      [] e = <<".", "md">> -> "MarkdownExtractor"
      [] OTHER -> "none"

\* C8: extract_from_file selects the extractor registered for the lower-cased
\* extension of the path when that is one of the nine supported extensions,
\* in any letter case; for any other extension or none it fails with an
\* error that carries the extension, selects no extractor, and leaves the
\* registry and last_embedding (and every other state) as they were.
C8_ExtractorDispatch ==
    [][(extraction.pending /\ ~extraction'.pending)
        => LET e == lower(ExtensionOf(extraction.file_path))
               r == extraction'
           IN  /\ r.file_path = extraction.file_path
               /\ ExpectedExtractor(e) # "none"
                    => r.extractor = ExpectedExtractor(e) /\ r.error = ""
               /\ ExpectedExtractor(e) = "none"
                    => r.extractor = "none" /\ r.error = "ValueError" /\ r.file_ext = e
               /\ extractors' = extractors /\ extractors = ExtractorMap
               /\ last_embedding' = last_embedding
               /\ UNCHANGED <<captured_data, files, conversations>>]_vars

\* C8 witness: a path with an upper-case extension was dispatched to the PDF
\* extractor on a service that holds an embedding.
C8_Witness ==
    /\ ~extraction.pending
    /\ extraction.file_path = <<"f", ".", "PDF">>
    /\ extraction.extractor = "PDFExtractor"
    /\ last_embedding # None

----------------------------------------------------------------------------
(* Properties of the conversation log *)

\* The rows of a session, as get_chat_history reports a row.
SessionRows(session_id) ==
    {i \in 1..Len(conversations) : conversations[i].session_id = session_id}

Reported(i) ==
    [timestamp |-> conversations[i].timestamp, role |-> conversations[i].role,
     message |-> conversations[i].message]

\* rows lists the turns with ids f[1], f[2], ... in that order.
Lists(rows, f, n) ==
    /\ Len(rows) = n
    /\ \A i \in 1..n : rows[i] = Reported(f[i])

\* rows is in non-decreasing order of the datetimes the turns were stored with.
Chronological(rows) ==
    \A i, j \in 1..Len(rows) :
        i < j => ParseDatetime(rows[i].timestamp) <= ParseDatetime(rows[j].timestamp)

\* C9: get_chat_history without a limit returns all the turns of the
\* session, whatever the order they were appended in, in non-decreasing
\* timestamp order.
C9_ConversationOrdering ==
    (history.called /\ ~history.given)
        => /\ \E f \in Perms(SessionRows(history.session_id)) :
                Lists(history.rows, f, Cardinality(SessionRows(history.session_id)))
           /\ Chronological(history.rows)

\* C9 witness: a history of three turns was returned for a session whose
\* turns were appended latest first, two of them within the same second.
C9_Witness ==
    /\ history.called /\ ~history.given /\ Len(history.rows) = 3
    /\ \A i \in 1..3 : conversations[i].session_id = history.session_id
    /\ ParseDatetime(conversations[1].timestamp) > ParseDatetime(conversations[2].timestamp)
    /\ ParseDatetime(conversations[2].timestamp) > ParseDatetime(conversations[3].timestamp)
    /\ conversations[3].timestamp[1] = conversations[2].timestamp[1]

\* C10: with a limit N >= 0 given, 0 included, get_chat_history returns at
\* most N turns: the first min(N, count) turns of the session in ascending
\* timestamp order.
C10_LimitLaw ==
    (history.called /\ history.given)
        => LET ids == SessionRows(history.session_id)
               n == IF history.limit < Cardinality(ids)
                    THEN history.limit ELSE Cardinality(ids)
           IN  /\ Len(history.rows) <= history.limit
               /\ \E f \in Perms(ids) :
                     /\ Lists(history.rows, f, n)
                     /\ \A i, j \in 1..Cardinality(ids) :
                           i < j => ParseDatetime(conversations[f[i]].timestamp)
                                      <= ParseDatetime(conversations[f[j]].timestamp)

\* Every row of the last history is a turn of the session asked for, no turn
\* being listed twice; without a limit all the turns of the session are listed.
HistoryOfSessionOnly ==
    history.called
        => LET ids == SessionRows(history.session_id)
               n == Len(history.rows)
           IN  /\ \E f \in [1..n -> ids] :
                     /\ \A i, j \in 1..n : i # j => f[i] # f[j]
                     /\ \A i \in 1..n : history.rows[i] = Reported(f[i])
               /\ ~history.given => n = Cardinality(ids)

\* The turns of session s in the table rows, in the order they were appended.
TurnsOf(rows, s) == SelectSeq(rows, LAMBDA r : r.session_id = s)

\* C21: get_chat_history returns turns of the session asked for only, each
\* as its timestamp, role and message, and all of them when no limit is
\* given; store_chat_message appends one turn with the session_id, role and
\* message it was given and leaves the turns of every other session, hence
\* the history returned for it, unchanged.
C21_SessionIsolation ==
    [][/\ HistoryOfSessionOnly'
       /\ conversations' # conversations
            => LET new == conversations'[Len(conversations')]
               IN  /\ conversations' = Append(conversations, new)
                   /\ new.session_id \in Sessions /\ new.role \in Roles
                   /\ new.message \in Messages
                   /\ ParseDatetime(new.timestamp) \in ChatTimes \cup {now}
                   /\ \A s \in Sessions \ {new.session_id} :
                         TurnsOf(conversations', s) = TurnsOf(conversations, s)]_vars

\* C21 witness: the history of a session was returned with its two turns
\* while a turn of another session, appended between them, is in the log.
C21_Witness ==
    /\ history.called /\ ~history.given /\ Len(history.rows) = 2
    /\ Len(conversations) = 3
    /\ conversations[1].session_id = history.session_id
    /\ conversations[2].session_id # history.session_id
    /\ conversations[3].session_id = history.session_id
    /\ conversations[2].timestamp = conversations[1].timestamp
    /\ conversations[2].role = conversations[1].role

----------------------------------------------------------------------------
(* Properties of the capture log and of the pipeline state *)

\* The last record of the log is the one of the invocation just made.
RecordOfInvocation ==
    LET r == captured_data'[Len(captured_data')]
    IN  /\ r.timestamp = result'.timestamp
        /\ r.image_path = PermanentPath(result'.timestamp)
        /\ r.image_path = result'.image_path
        /\ r.extracted_text = result'.text

RecognizedNow == IF call'.raised THEN files[call'.src] ELSE result'.text

\* The invocation recognized a non-empty text, with store = true, on a
\* service whose last_embedding was absent.
FirstCapture ==
    /\ Invoked /\ call'.ocr = "ok" /\ ~OnlySpaces(RecognizedNow)
    /\ call'.store /\ last_embedding = None

\* The invocation was accepted with similarity 0.
AcceptedAsNew ==
    /\ ~call'.raised
    /\ result'.image_path # NoPath /\ Relocated /\ call'.db # "none"
    /\ result'.similarity = 0

C13_SourceImageKept ==
    [][(Invoked /\ call'.op = "process" /\ Exists(files, call'.src))
        => LET src == call'.src
               dst == result'.image_path
           IN  /\ Exists(files', src) /\ files'[src] = files[src]
               /\ (~call'.raised /\ dst # NoPath)
                    => /\ dst # src /\ dst.dir = "images"
                       /\ Exists(files', dst) /\ files'[dst] = files[src]
                       /\ \A p \in DOMAIN files : p # dst => files'[p] = files[p]
                       /\ DOMAIN files' = DOMAIN files \cup {dst}
               /\ (call'.raised \/ dst = NoPath) => files' = files]_vars

\* C13 witness: process_image accepted an image that the service had stored
\* itself, and both the image and its new copy exist.
C13_Witness ==
    /\ call.op = "process" /\ ~call.raised /\ call.src.dir = "images"
    /\ result.image_path # NoPath /\ result.image_path # call.src
    /\ Exists(files, call.src) /\ Exists(files, result.image_path)
    /\ files[result.image_path] = files[call.src]

\* C15: when an invocation that recognized non-empty text is rejected
\* (store = false, or last_embedding present and similarity >= threshold),
\* last_embedding, the capture log and the permanent images are unchanged and
\* the result has no image_path; the temporary image of a
\* capture_and_process_screen invocation no longer exists, and process_image
\* leaves every file as it was.
C15_RejectionFrame ==
    [][(RecognizedText
          /\ (~call'.store \/ (last_embedding # None /\ result'.similarity >= threshold)))
        => /\ last_embedding' = last_embedding
           /\ captured_data' = captured_data
           /\ Images(files') = Images(files)
           /\ result'.image_path = NoPath
           /\ call'.op = "capture" => ~Exists(files', call'.src)
           /\ call'.op = "process" => files' = files]_vars

\* C15 witness: a capture with store = true was rejected for its similarity
\* to the last accepted capture, whose record and image are in place.
C15_Witness ==
    /\ call.op = "capture" /\ call.store /\ call.embed = "ok"
    /\ last_embedding # None /\ threshold > 0
    /\ result.similarity >= threshold /\ result.image_path = NoPath
    /\ ~OnlySpaces(result.text)
    /\ captured_data # <<>> /\ \E p \in DOMAIN files : p.dir = "images"

C19_NoSilentOverwrite ==
    [][/\ (Returned /\ result'.image_path # NoPath)
            => ~Exists(files, result'.image_path)
       /\ \A j, k \in 1..Len(captured_data') :
            j # k => captured_data'[j].image_path # captured_data'[k].image_path]_vars

\* C20: when capture_and_process_screen returns, whatever its outcome and
\* also when the capture source failed after writing to the temporary path,
\* the temporary image of the invocation does not exist and temp_dir holds
\* no file that was not there before.
C20_TempCleanup ==
    [][(Returned /\ call'.op = "capture")
        => /\ ~Exists(files', TempPath(result'.timestamp))
           /\ \A p \in DOMAIN files' : p.dir = "temp" => p \in DOMAIN files]_vars

----------------------------------------------------------------------------
(* Properties of the schema *)

\* The schema a database has once the function creating `names` was called,
\* starting from the schema sch.
SchemaWith(sch, names) ==
    [n \in (DOMAIN sch) \cup names |-> IF n \in DOMAIN sch THEN sch[n] ELSE FullSchema[n]]

\* C14: init_db and ensure_conversation_table, called any number of times at
\* any point, yield the schema that one call yields (each table and index
\* with its one definition, an existing one kept as it is) and leave the rows
\* of both logs unchanged; store_data changes neither the conversation log
\* nor the schema, store_chat_message neither the capture log nor the schema.
C14_SchemaIdempotent ==
    [][/\ \A n \in DOMAIN schema' : schema'[n] = FullSchema[n]
       /\ dbcall' = "init_db"
            => /\ schema' = SchemaWith(schema, {"captured_data"})
               /\ HasTable(schema, "captured_data") => schema' = schema
               /\ captured_data' = captured_data /\ conversations' = conversations
       /\ dbcall' = "ensure_conversation_table"
            => /\ schema' = SchemaWith(schema, {"conversations",
                                                "idx_conversations_session"})
               /\ HasTable(schema, "conversations") => schema' = schema
               /\ captured_data' = captured_data /\ conversations' = conversations
       /\ dbcall' = "store_data"
            => /\ conversations' = conversations /\ schema' = schema
               /\ Len(captured_data') = Len(captured_data) + 1
       /\ dbcall' = "store_chat_message"
            => /\ captured_data' = captured_data /\ schema' = schema
               /\ Len(conversations') = Len(conversations) + 1]_vars

\* C14 witness: init_db was called again on a database that has both tables
\* and a row in each log.
C14_Witness ==
    /\ dbcall = "init_db" /\ schema = FullSchema
    /\ Len(captured_data) = 1 /\ Len(conversations) = 1

----------------------------------------------------------------------------
(* Properties of the pipeline statement by statement *)

\* The position of a statement in the text of an invocation.
PcRank(pc) ==
    CASE pc = "recognize" -> 1
      [] pc = "embed" -> 2
      [] pc = "compare" -> 3
      [] pc = "decide" -> 4
      [] pc = "store" -> 5
      [] pc = "update" -> 6
      [] OTHER -> 0

\* The process was stopped and started again in this step.
Stopped(t) ==
    /\ inv[t].pc # "idle" /\ inv'[t].pc = "idle"
    /\ UNCHANGED <<captured_data, files, result>>

\* C17: an invocation goes through recognition, embedding and similarity,
\* relocation, durable append and last_embedding update in this order: a file
\* appears in images_dir only at the relocation, a record is appended only
\* after it, for a file that exists, and last_embedding is assigned only
\* after the append; and in every state, also when the process stopped
\* between two steps or the relocation failed, every record of the capture
\* log references an existing file of images_dir.
C17_OrderedSideEffects ==
    [][LET i == inv["t1"]
           j == inv'["t1"]
       IN  /\ \A k \in 1..Len(captured_data') :
                 /\ captured_data'[k].image_path.dir = "images"
                 /\ Exists(files', captured_data'[k].image_path)
           /\ (j # i /\ i.pc # "idle" /\ j.pc # "idle") => PcRank(i.pc) < PcRank(j.pc)
           /\ Images(files') # Images(files) => (i.pc = "decide" /\ j.pc = "store")
           /\ captured_data' # captured_data
                => /\ i.pc = "store" /\ j.pc = "update"
                   /\ RecordAppended
                   /\ captured_data'[Len(captured_data')].image_path
                        = PermanentPath(i.timestamp)
                   /\ Exists(files, PermanentPath(i.timestamp))
                   /\ files' = files /\ last_embedding' = last_embedding
           /\ last_embedding' # last_embedding
                => /\ i.pc = "update" \/ (Stopped("t1") /\ last_embedding' = None)
                   /\ captured_data' = captured_data /\ files' = files]_vars

\* C17 witness: the process stopped after relocating the image of its second
\* invocation and before that invocation returned: the image is in
\* images_dir without a record, next to the recorded image of the first.
C17_Witness ==
    /\ ncalls = 2 /\ inv["t1"].pc = "idle"
    /\ Len(captured_data) = 1
    /\ captured_data[1].image_path = PermanentPath(0)
    /\ Exists(files, PermanentPath(0))
    /\ Exists(files, PermanentPath(TicksPerSec))
    /\ result.timestamp = 0 /\ result.image_path = PermanentPath(0)
    /\ last_embedding = None

\* C18: two invocations that run concurrently on one service instance are
\* never both accepted on the same stale last_embedding: whenever an
\* invocation commits its acceptance (assigns last_embedding and returns),
\* its embedding has a similarity below the threshold to the last_embedding
\* of that moment, or one of the two is absent, as in a sequential order of
\* the invocations.
C18_Serialized ==
    [][\A t \in Threads :
          (inv[t].pc = "update" /\ inv'[t].pc = "idle")
            => \/ inv[t].embedding = None
               \/ last_embedding = None
               \/ compute_similarity(inv[t].embedding, last_embedding) < threshold]_vars

====
